---- MODULE Spec2Model ----
(***************************************************************************)
(* The logging backend of rlattack/logger.py: the output formats (sinks),  *)
(* the Logger with its key/value buffer and level, and the process-wide    *)
(* Logger.DEFAULT / Logger.CURRENT pair driven by configure() and reset(). *)
(***************************************************************************)
EXTENDS Integers, Sequences, FiniteSets, TLC

VARIABLES
  env,       \* value of os.getenv('OPENAI_LOGDIR'), fixed for the process
  loggers,   \* the live Logger objects, by identity
  CURRENT,   \* Logger.CURRENT: identity of the current Logger
  held,      \* the reference a caller keeps from an earlier getkvs()
  last,      \* observation of the last facade call: outcome and sink calls
  writes,    \* history: logkv calls on the current Logger since its buffer was empty
  retained   \* history: entries kept back by a dumpkvs() skipped under DISABLED

vars == <<env, loggers, CURRENT, held, last, writes, retained>>

----------------------------------------------------------------------------
(* Constants of the module *)

None == "None"

LOG_OUTPUT_FORMATS == <<"stdout", "log", "json">>

DEBUG == 10
INFO == 20
WARN == 30
ERROR == 40
DISABLED == 50

Levels == {DEBUG, INFO, WARN, ERROR, DISABLED}

\* Logger.DEFAULT is the Logger built at module load; the Logger built by
\* configure() is a second object.
DEFAULT == 0
CONFIGURED == 1

----------------------------------------------------------------------------
(* Values and dictionaries *)

IntVal == [type |-> "int", v |-> 1]
TextVal == [type |-> "str", v |-> 0]
TensorVal == [type |-> "tensor", v |-> 2]

\* hasattr(v, 'dtype')
hasdtype(x) == x.type = "tensor"

\* float(v): a number or a tensor-like scalar converts, free text does not
floatable(x) == x.type # "str"
float(x) == [type |-> "float", v |-> x.v]

EmptyDict == [k \in {} |-> IntVal]

\* d[k] = v
setitem(d, k, v) == [x \in (DOMAIN d) \cup {k} |-> IF x = k THEN v ELSE d[x]]

----------------------------------------------------------------------------
(* Output formats.  A sink is [cls, file, step, writer]: step and writer   *)
(* belong to TensorBoardOutputFormat only.  Every method returns the sink  *)
(* after the call and the exception it raised (None when it returned).     *)
(* io says whether the sink's stream refuses the write (an OSError).       *)

HumanOutputFormat(file) == [cls |-> "Human", file |-> file, step |-> 0, writer |-> FALSE]
JSONOutputFormat(file) == [cls |-> "JSON", file |-> file, step |-> 0, writer |-> FALSE]
\* an event-stream sink whose counter starts at 0
TensorBoardOutputFormat_from_zero(dir) == [cls |-> "TensorBoard", file |-> dir, step |-> 0, writer |-> TRUE]

TensorBoardOutputFormat(dir) == [cls |-> "TensorBoard", file |-> dir, step |-> 1, writer |-> TRUE]

\* s[:20] + '...' if len(s) > 23 else s
_truncate(s) == IF Len(s) > 23 THEN SubSeq(s, 1, 20) \o "..." ELSE s

\* the keys that are logged, in the order sorted() puts them
KeyOrder ==
  <<"a", "b", "mean_episode_reward_train", "mean_episode_reward_valid",
    "total_timesteps_so_far_in_run">>
rank(key) == CHOOSE i \in 1..Len(KeyOrder) : KeyOrder[i] = key

\* valstr: '%-8.3g' % (val,) for a float, str(val) otherwise; the text of
\* none of the values here is longer than 23 characters
valstr(val) ==
  [type |-> "str", v |-> val.v, as |-> IF val.type = "float" THEN "%-8.3g" ELSE "str"]

\* key2str[self._truncate(key)] = self._truncate(valstr), for the keys in
\* sorted order: of the keys with one truncation the last one stays.  out
\* is key2str, which has one table row per item.
HumanOutputFormat_writekvs(fmt, kvs, io) ==
  [fmt |-> fmt, kvs |-> kvs,
   out |-> [t \in {_truncate(k) : k \in DOMAIN kvs} |->
              LET ks == {k \in DOMAIN kvs : _truncate(k) = t}
              IN valstr(kvs[CHOOSE k \in ks : \A j \in ks : rank(j) <= rank(k)])],
   exc |-> IF DOMAIN kvs = {} THEN "ValueError"      \* max() of an empty sequence
           ELSE IF io THEN "OSError" ELSE None]

JSONOutputFormat_writekvs(fmt, kvs, io) ==
  LET conv == [k \in DOMAIN kvs |-> IF hasdtype(kvs[k]) THEN float(kvs[k]) ELSE kvs[k]]
  IN [fmt |-> fmt, kvs |-> conv, out |-> conv,
      exc |-> IF io THEN "OSError" ELSE None]

TensorBoardOutputFormat_writekvs(fmt, kvs, io) ==
  LET exc == IF \E k \in DOMAIN kvs : ~floatable(kvs[k]) THEN "ValueError"
             ELSE IF ~fmt.writer THEN "AttributeError"
             ELSE IF io THEN "OSError" ELSE None
  IN [fmt |-> IF exc = None THEN [fmt EXCEPT !.step = @ + 1] ELSE fmt,
      kvs |-> kvs,
      out |-> [k \in DOMAIN kvs |-> IF floatable(kvs[k]) THEN float(kvs[k]) ELSE kvs[k]],
      exc |-> exc]

writekvs(fmt, kvs, io) ==
  CASE fmt.cls = "Human" -> HumanOutputFormat_writekvs(fmt, kvs, io)
    [] fmt.cls = "JSON" -> JSONOutputFormat_writekvs(fmt, kvs, io)
    [] fmt.cls = "TensorBoard" -> TensorBoardOutputFormat_writekvs(fmt, kvs, io)

\* OutputFormat.writeseq is `pass`; only HumanOutputFormat overrides it
writeseq(fmt, args, io) ==
  [fmt |-> fmt,
   exc |-> IF fmt.cls = "Human" /\ io THEN "OSError" ELSE None]

\* OutputFormat.close returns at once; only TensorBoardOutputFormat overrides it
close(fmt) ==
  IF fmt.cls = "TensorBoard" /\ fmt.writer THEN [fmt EXCEPT !.writer = FALSE] ELSE fmt

\* the resource a sink holds on to: the EventsWriter until close() drops it,
\* or the file opened for it by make_output_format, which no method closes
holds_resource(fmt) ==
  IF fmt.cls = "TensorBoard" THEN fmt.writer
  ELSE fmt.file \in {"log.txt", "progress.json"}

FormatNames == {"stdout", "log", "json", "tensorboard"}

make_output_format(format, ev_dir) ==
  IF ev_dir = "" THEN [exc |-> "FileNotFoundError", fmt |-> HumanOutputFormat(None)]
  ELSE IF format = "stdout" THEN [exc |-> None, fmt |-> HumanOutputFormat("stdout")]
  ELSE IF format = "log" THEN [exc |-> None, fmt |-> HumanOutputFormat("log.txt")]
  ELSE IF format = "json" THEN [exc |-> None, fmt |-> JSONOutputFormat("progress.json")]
  ELSE IF format = "tensorboard" THEN [exc |-> None, fmt |-> TensorBoardOutputFormat("tb")]
  ELSE [exc |-> "ValueError", fmt |-> HumanOutputFormat(None)]

----------------------------------------------------------------------------
(* class Logger.  A Logger is [name2val, level, dir, output_formats].      *)
(* A method returns the Logger after the call, the sink calls it made, in  *)
(* order, and the exception that left it (None when it returned).  io is   *)
(* the position of the sink whose stream refuses a write, 0 for none.      *)

Logger(dir, output_formats) ==
  [name2val |-> EmptyDict, level |-> INFO, dir |-> dir, output_formats |-> output_formats]

KvsCall(i, fmt, kvs, r) ==
  [call |-> "writekvs", sink |-> i, kvs |-> kvs, out |-> r.out, msg |-> None,
   step |-> fmt.step, exc |-> r.exc]
SeqCall(i, fmt, args, r) ==
  [call |-> "writeseq", sink |-> i, kvs |-> EmptyDict, out |-> EmptyDict, msg |-> args,
   step |-> fmt.step, exc |-> r.exc]
CloseCall(i, fmt) ==
  [call |-> "close", sink |-> i, kvs |-> EmptyDict, out |-> EmptyDict, msg |-> None,
   step |-> fmt.step, exc |-> None]

\* logkv that stores float(val) for a tensor-like val
Logger_logkv_coercing(self, key, val) ==
  [self EXCEPT !.name2val = setitem(@, key, IF hasdtype(val) THEN float(val) ELSE val)]

\* logkv that keeps the value a key already has
Logger_logkv_first(self, key, val) ==
  IF key \in DOMAIN self.name2val THEN self
  ELSE [self EXCEPT !.name2val = setitem(@, key, val)]

Logger_logkv(self, key, val) ==
  [self EXCEPT !.name2val = setitem(@, key, val)]

\* the loop of dumpkvs with every sink in a try block of its own, the first
\* exception raised again at the end
RECURSIVE dumpkvs_loop_isolating(_, _, _, _)
dumpkvs_loop_isolating(fmts, kvs, i, io) ==
  IF i > Len(fmts) THEN [fmts |-> fmts, kvs |-> kvs, trace |-> <<>>, exc |-> None]
  ELSE LET r == writekvs(fmts[i], kvs, io = i)
           ev == KvsCall(i, fmts[i], kvs, r)
           rest == dumpkvs_loop_isolating([fmts EXCEPT ![i] = r.fmt], r.kvs, i + 1, io)
       IN [rest EXCEPT !.trace = <<ev>> \o @,
                       !.exc = IF r.exc # None THEN r.exc ELSE @]

\* for fmt in self.output_formats: fmt.writekvs(self.name2val)
\* from position i on; an exception leaves the loop
RECURSIVE dumpkvs_loop(_, _, _, _)
dumpkvs_loop(fmts, kvs, i, io) ==
  IF i > Len(fmts) THEN [fmts |-> fmts, kvs |-> kvs, trace |-> <<>>, exc |-> None]
  ELSE LET r == writekvs(fmts[i], kvs, io = i)
           ev == KvsCall(i, fmts[i], kvs, r)
           fmts1 == [fmts EXCEPT ![i] = r.fmt]
       IN IF r.exc # None
          THEN [fmts |-> fmts1, kvs |-> r.kvs, trace |-> <<ev>>, exc |-> r.exc]
          ELSE LET rest == dumpkvs_loop(fmts1, r.kvs, i + 1, io)
               IN [rest EXCEPT !.trace = <<ev>> \o @]

\* dumpkvs that clears the buffer under DISABLED too
Logger_dumpkvs_drops(self, io) ==
  IF self.level = DISABLED
  THEN [self |-> [self EXCEPT !.name2val = EmptyDict], trace |-> <<>>, exc |-> None]
  ELSE LET r == dumpkvs_loop(self.output_formats, self.name2val, 1, io)
       IN [self |-> [self EXCEPT !.output_formats = r.fmts,
                                 !.name2val = IF r.exc = None THEN EmptyDict ELSE r.kvs],
           trace |-> r.trace, exc |-> r.exc]

\* dumpkvs without the final clear()
Logger_dumpkvs_keeps(self, io) ==
  IF self.level = DISABLED
  THEN [self |-> self, trace |-> <<>>, exc |-> None]
  ELSE LET r == dumpkvs_loop(self.output_formats, self.name2val, 1, io)
       IN [self |-> [self EXCEPT !.output_formats = r.fmts, !.name2val = r.kvs],
           trace |-> r.trace, exc |-> r.exc]

Logger_dumpkvs(self, io) ==
  IF self.level = DISABLED
  THEN [self |-> self, trace |-> <<>>, exc |-> None]
  ELSE LET r == dumpkvs_loop(self.output_formats, self.name2val, 1, io)
       IN [self |-> [self EXCEPT !.output_formats = r.fmts,
                                 !.name2val = IF r.exc = None THEN EmptyDict ELSE r.kvs],
           trace |-> r.trace, exc |-> r.exc]

\* for fmt in self.output_formats: fmt.writeseq(args)
RECURSIVE _do_log_loop(_, _, _, _)
_do_log_loop(fmts, args, i, io) ==
  IF i > Len(fmts) THEN [trace |-> <<>>, exc |-> None]
  ELSE LET r == writeseq(fmts[i], args, io = i)
           ev == SeqCall(i, fmts[i], args, r)
       IN IF r.exc # None
          THEN [trace |-> <<ev>>, exc |-> r.exc]
          ELSE LET rest == _do_log_loop(fmts, args, i + 1, io)
               IN [rest EXCEPT !.trace = <<ev>> \o @]

Logger__do_log(self, args, io) ==
  LET r == _do_log_loop(self.output_formats, args, 1, io)
  IN [self |-> self, trace |-> r.trace, exc |-> r.exc]

\* log with a strict comparison
Logger_log_strict(self, args, level, io) ==
  IF self.level < level
  THEN Logger__do_log(self, args, io)
  ELSE [self |-> self, trace |-> <<>>, exc |-> None]

Logger_log(self, args, level, io) ==
  IF self.level <= level
  THEN Logger__do_log(self, args, io)
  ELSE [self |-> self, trace |-> <<>>, exc |-> None]

Logger_set_level(self, level) == [self EXCEPT !.level = level]

Logger_get_dir(self) == self.dir

Logger_close(self) ==
  [self |-> [self EXCEPT !.output_formats =
                [i \in 1..Len(@) |-> close(@[i])]],
   trace |-> [i \in 1..Len(self.output_formats) |-> CloseCall(i, self.output_formats[i])],
   exc |-> None]

----------------------------------------------------------------------------
(* The process-wide context and the free functions.  P is                  *)
(* [loggers, CURRENT]; a function returns P after the call, the sink calls *)
(* made, and the exception that left it.                                   *)

TempDir == "tmp/openai"

DefaultLogger == Logger(None, <<HumanOutputFormat("stdout")>>)

\* Logger.DEFAULT = Logger.CURRENT = Logger(dir=None, output_formats=[HumanOutputFormat(sys.stdout)])
ModuleLoad == [loggers |-> [id \in {DEFAULT} |-> DefaultLogger], CURRENT |-> DEFAULT]

\* logkv that always writes to Logger.DEFAULT
logkv_on_default(P, key, val) ==
  [P EXCEPT !.loggers[DEFAULT] = Logger_logkv(@, key, val)]

logkv(P, key, val) ==
  [P EXCEPT !.loggers[P.CURRENT] = Logger_logkv(@, key, val)]

\* d is the list of d.items(), in the order of the dictionary
RECURSIVE logkvs(_, _)
logkvs(P, d) ==
  IF d = <<>> THEN P
  ELSE logkvs(logkv(P, Head(d)[1], Head(d)[2]), Tail(d))

dumpkvs(P, io) ==
  LET r == Logger_dumpkvs(P.loggers[P.CURRENT], io)
  IN [P |-> [P EXCEPT !.loggers[P.CURRENT] = r.self], trace |-> r.trace, exc |-> r.exc]

\* What a caller holds of a dictionary: src is the Logger it came from, shared
\* says that it is the very object that Logger keeps in name2val, val is its
\* content when it is an object of its own.
\* getkvs that returns dict(Logger.CURRENT.name2val)
getkvs_copy(P) ==
  [got |-> TRUE, src |-> P.CURRENT, shared |-> FALSE, val |-> P.loggers[P.CURRENT].name2val]

\* getkvs returns Logger.CURRENT.name2val, the object itself
getkvs(P) == [got |-> TRUE, src |-> P.CURRENT, shared |-> TRUE, val |-> EmptyDict]

log(P, args, level, io) ==
  LET r == Logger_log(P.loggers[P.CURRENT], args, level, io)
  IN [P |-> [P EXCEPT !.loggers[P.CURRENT] = r.self], trace |-> r.trace, exc |-> r.exc]

set_level(P, level) ==
  [P EXCEPT !.loggers[P.CURRENT] = Logger_set_level(@, level)]

get_dir(P) == Logger_get_dir(P.loggers[P.CURRENT])

\* [make_output_format(f, dir) for f in format_strs]: the first exception ends it
RECURSIVE make_output_formats(_, _)
make_output_formats(format_strs, dir) ==
  IF format_strs = <<>> THEN [exc |-> None, fmts |-> <<>>]
  ELSE LET r == make_output_format(Head(format_strs), dir)
       IN IF r.exc # None THEN [exc |-> r.exc, fmts |-> <<>>]
          ELSE LET rest == make_output_formats(Tail(format_strs), dir)
               IN [exc |-> rest.exc,
                   fmts |-> IF rest.exc # None THEN <<>> ELSE <<r.fmt>> \o rest.fmts]

\* configure() without its assert
configure_guard_absent(P) == TRUE

\* the assert of configure()
configure_guard(P) == P.CURRENT = DEFAULT

\* configure() that announces the directory before it installs the new Logger
configure_announcing_first(P, e, dir, format_strs, io) ==
  IF ~configure_guard(P)
  THEN [P |-> P, trace |-> <<>>, exc |-> "AssertionError"]
  ELSE LET dir1 == IF dir = None THEN e ELSE dir
           dir2 == IF dir1 = None THEN TempDir ELSE dir1
           strs == IF format_strs.omitted THEN LOG_OUTPUT_FORMATS ELSE format_strs.strs
           made == make_output_formats(strs, dir2)
       IN IF made.exc # None
          THEN [P |-> P, trace |-> <<>>, exc |-> made.exc]
          ELSE LET r == log(P, "Logging to", INFO, io)
               IN [P |-> [loggers |-> [id \in {DEFAULT, CONFIGURED} |->
                                        IF id = DEFAULT THEN r.P.loggers[DEFAULT]
                                        ELSE Logger(dir2, made.fmts)],
                          CURRENT |-> CONFIGURED],
                   trace |-> r.trace, exc |-> r.exc]

\* configure() that installs the new Logger before its sinks are built
configure_installs_first(P, e, dir, format_strs, io) ==
  IF ~configure_guard(P)
  THEN [P |-> P, trace |-> <<>>, exc |-> "AssertionError"]
  ELSE LET dir1 == IF dir = None THEN e ELSE dir
           dir2 == IF dir1 = None THEN TempDir ELSE dir1
           strs == IF format_strs.omitted THEN LOG_OUTPUT_FORMATS ELSE format_strs.strs
           made == make_output_formats(strs, dir2)
           P1 == [loggers |-> [id \in {DEFAULT, CONFIGURED} |->
                                 IF id = DEFAULT THEN P.loggers[DEFAULT]
                                 ELSE Logger(dir2, made.fmts)],
                  CURRENT |-> CONFIGURED]
       IN IF made.exc # None
          THEN [P |-> P1, trace |-> <<>>, exc |-> made.exc]
          ELSE log(P1, "Logging to", INFO, io)

\* format_strs is [omitted, strs]: omitted stands for format_strs=None
configure(P, e, dir, format_strs, io) ==
  IF ~configure_guard(P)
  THEN [P |-> P, trace |-> <<>>, exc |-> "AssertionError"]
  ELSE LET dir1 == IF dir = None THEN e ELSE dir
           dir2 == IF dir1 = None THEN TempDir ELSE dir1
           strs == IF format_strs.omitted THEN LOG_OUTPUT_FORMATS ELSE format_strs.strs
           made == make_output_formats(strs, dir2)
       IN IF made.exc # None
          THEN [P |-> P, trace |-> <<>>, exc |-> made.exc]
          ELSE LET P1 == [loggers |-> [id \in {DEFAULT, CONFIGURED} |->
                                         IF id = DEFAULT THEN P.loggers[DEFAULT]
                                         ELSE Logger(dir2, made.fmts)],
                          CURRENT |-> CONFIGURED]
               IN log(P1, "Logging to", INFO, io)

\* reset() that builds the default Logger anew
reset_rebuilding(P, io) ==
  log([loggers |-> [P.loggers EXCEPT ![DEFAULT] = DefaultLogger], CURRENT |-> DEFAULT],
      "Reset logger", INFO, io)

\* reset() that closes the Logger it replaces
reset_closing(P, io) ==
  log([loggers |-> [P.loggers EXCEPT ![P.CURRENT] = Logger_close(@).self],
       CURRENT |-> DEFAULT], "Reset logger", INFO, io)

reset(P, io) ==
  log([P EXCEPT !.CURRENT = DEFAULT], "Reset logger", INFO, io)

\* Logger.CURRENT.close()
close_current(P) ==
  LET r == Logger_close(P.loggers[P.CURRENT])
  IN [P |-> [P EXCEPT !.loggers[P.CURRENT] = r.self], trace |-> r.trace, exc |-> r.exc]

\* if os.getenv('OPENAI_LOGDIR'): configure(dir=os.getenv('OPENAI_LOGDIR'))
Omitted == [omitted |-> TRUE, strs |-> <<>>]
Given(strs) == [omitted |-> FALSE, strs |-> strs]

\* module load that configures whatever the environment holds
Import_unconditional(e) == configure(ModuleLoad, e, e, Omitted, 0)

Import(e) ==
  IF e # None /\ e # ""
  THEN configure(ModuleLoad, e, e, Omitted, 0)
  ELSE [P |-> ModuleLoad, trace |-> <<>>, exc |-> None]

----------------------------------------------------------------------------
(* The state machine: one action per call of the facade.                   *)

MaxStep == 3      \* dumps are cut off once an event-stream sink reaches this step
MaxWrites == 3    \* longest logkv history that is followed

Keys == {"a", "b"}
Values == {IntVal, TextVal, TensorVal}
Envs == {None, "envdir"}
Dirs == {None, "d", ""}
FormatLists ==
  {Omitted, Given(<<>>), Given(<<"json", "tensorboard">>), Given(<<"tensorboard", "log">>),
   Given(<<"bogus">>), Given(<<"log", "bogus">>), Given(<<"bogus", "json">>)}

NoLogger == CONFIGURED + 1
NoRef == [got |-> FALSE, src |-> NoLogger, shared |-> FALSE, val |-> EmptyDict]
View(h, L) == IF h.shared THEN L[h.src].name2val ELSE h.val
\* the logkv history: followed from an empty buffer on (tracked), lost after a
\* failed dump or a write from outside (not tracked), or not kept at all (off)
\* seq: the logkv calls since the buffer was empty; mark: how many of them came
\* before the last dumpkvs() that left the buffer as it was; flushed: a
\* dumpkvs() has just written them
\* failed: a dumpkvs() among them raised
Fresh == [off |-> FALSE, tracked |-> TRUE, seq |-> <<>>, mark |-> 0, flushed |-> FALSE,
          failed |-> FALSE]
Untracked == [Fresh EXCEPT !.tracked = FALSE]
Off == [Untracked EXCEPT !.off = TRUE]
\* kept: a dumpkvs() skipped under DISABLED left kvs in the buffer and only
\* set_level/log/getkvs calls followed; flushed: the next dumpkvs() has run
Disarmed == [phase |-> "none", kvs |-> EmptyDict]

\* what is seen of a call: the function, the exception that left it, the sink
\* calls it made in order, and the Logger whose sinks they went to
Call(op, r, target) == [op |-> op, exc |-> r.exc, trace |-> r.trace, target |-> target]
Returned == [exc |-> None, trace |-> <<>>]

\* a Logger that is neither Logger.DEFAULT nor Logger.CURRENT is unreachable;
\* a dictionary a caller still holds outlives its Logger
Restrict(L, ids) == [id \in (DOMAIN L) \cap ids |-> L[id]]
Reachable == [loggers |-> Restrict(loggers, {DEFAULT, CURRENT}), CURRENT |-> CURRENT]
Kept == IF held.got /\ held.src \notin {DEFAULT, CURRENT, NoLogger}
        THEN [got |-> TRUE, src |-> NoLogger, shared |-> FALSE, val |-> View(held, loggers)]
        ELSE held

buffer(P) == P.loggers[P.CURRENT].name2val
sinks(P) == P.loggers[P.CURRENT].output_formats
strs_of(format_strs) == IF format_strs.omitted THEN LOG_OUTPUT_FORMATS ELSE format_strs.strs

RECURSIVE Append_all(_, _)
Append_all(w, items) ==
  IF items = <<>> THEN w
  ELSE LET w0 == IF w.flushed THEN Fresh ELSE w
       IN Append_all(IF w0.tracked /\ Len(w0.seq) < MaxWrites
                     THEN [w0 EXCEPT !.seq = Append(@, Head(items))]
                     ELSE Untracked, Tail(items))

Past(r) == IF r.phase = "flushed" THEN Disarmed ELSE r
Seen(w) == IF w.flushed THEN Fresh ELSE w

Commit(P1, h1, obs, w1, r1) ==
  /\ loggers' = P1.loggers
  /\ CURRENT' = P1.CURRENT
  /\ held' = h1
  /\ last' = obs
  /\ writes' = IF writes.off THEN writes
               ELSE IF buffer(P1) = EmptyDict /\ ~w1.flushed THEN Fresh ELSE w1
  /\ retained' = r1
  /\ env' = env

Loaded(e, w) ==
  /\ env = e
  /\ LET r == Import(e)
     IN /\ loggers = r.P.loggers
        /\ CURRENT = r.P.CURRENT
        /\ last = Call("import", r, r.P.CURRENT)
  /\ held = NoRef
  /\ writes = w
  /\ retained = Disarmed

Init == \E e \in Envs : Loaded(e, Off)

LogKvCall(k, v) ==
  Commit(logkv(Reachable, k, v), Kept, Call("logkv", Returned, CURRENT),
         Append_all(writes, <<<<k, v>>>>), Disarmed)

LogKv(KS, VS) == \E k \in KS, v \in VS : LogKvCall(k, v)

LogKvsCall(d) ==
  Commit(logkvs(Reachable, d), Kept, Call("logkvs", Returned, CURRENT),
         Append_all(writes, d), IF d = <<>> THEN Past(retained) ELSE Disarmed)

LogKvs(DS) == \E d \in DS : LogKvsCall(d)

DumpKvsCall(io) ==
  LET lvl == loggers[CURRENT].level
      r == dumpkvs(Reachable, io)
  IN Commit(r.P, Kept, Call("dumpkvs", r, CURRENT),
            IF lvl = DISABLED THEN [Seen(writes) EXCEPT !.mark = Len(Seen(writes).seq)]
            ELSE IF ~writes.tracked THEN Untracked
            ELSE IF r.exc # None
            THEN [Seen(writes) EXCEPT !.failed = TRUE, !.mark = Len(Seen(writes).seq)]
            ELSE [Seen(writes) EXCEPT !.flushed = TRUE],
            IF lvl = DISABLED THEN [phase |-> "kept", kvs |-> buffer(Reachable)]
            ELSE IF retained.phase = "kept" /\ r.exc = None
            THEN [retained EXCEPT !.phase = "flushed"]
            ELSE Disarmed)

DumpKvs(FS) ==
  /\ \A i \in 1..Len(sinks(Reachable)) : sinks(Reachable)[i].step < MaxStep
  /\ \E io \in FS \cap (0..Len(sinks(Reachable))) : DumpKvsCall(io)

GetKvs ==
  Commit(Reachable, getkvs(Reachable), Call("getkvs", Returned, CURRENT), Seen(writes), Past(retained))

\* the caller assigns into the mapping it got from getkvs()
ModifyHeldCall(k, v) ==
  LET h == Kept
      P == Reachable
  IN IF h.shared
     THEN Commit([P EXCEPT !.loggers[h.src].name2val = setitem(@, k, v)], h,
                 Call("modify", Returned, h.src),
                 IF h.src = CURRENT THEN Untracked ELSE Seen(writes),
                 IF h.src = CURRENT THEN Disarmed ELSE Past(retained))
     ELSE Commit(P, [h EXCEPT !.val = setitem(@, k, v)],
                 Call("modify", Returned, CURRENT), Seen(writes), Past(retained))

ModifyHeld(KS, VS) ==
  /\ held.got
  /\ \E k \in KS, v \in VS : ModifyHeldCall(k, v)

LogCall(level, io) ==
  LET r == log(Reachable, "message", level, io)
  IN Commit(r.P, Kept, Call("log", r, CURRENT), Seen(writes), Past(retained))

Log(LS, FS) ==
  \E level \in LS, io \in FS \cap (0..Len(sinks(Reachable))) : LogCall(level, io)

SetLevelCall(level) ==
  Commit(set_level(Reachable, level), Kept, Call("set_level", Returned, CURRENT),
         Seen(writes), Past(retained))

SetLevel(LS) == \E level \in LS : SetLevelCall(level)

Close ==
  LET r == close_current(Reachable)
  IN Commit(r.P, Kept, Call("close", r, CURRENT), Seen(writes), Past(retained))

ConfigureCall(dir, format_strs, io) ==
  LET r == configure(Reachable, env, dir, format_strs, io)
      installed == r.P.CURRENT # CURRENT
  IN Commit(r.P, Kept, Call("configure", r, r.P.CURRENT),
            IF installed THEN Fresh ELSE Seen(writes),
            IF installed THEN Disarmed ELSE Past(retained))

Configure(DS, FLS, FS) ==
  \E dir \in DS, format_strs \in FLS :
    \E io \in FS \cap (0..Len(strs_of(format_strs))) : ConfigureCall(dir, format_strs, io)

\* reset() is the one call after which the replaced Logger is still looked at
ResetCall(io) ==
  LET r == reset(Reachable, io)
      switched == CURRENT # DEFAULT
  IN Commit(r.P, Kept, Call("reset", r, DEFAULT),
            IF switched THEN Untracked ELSE Seen(writes),
            IF switched THEN Disarmed ELSE Past(retained))

Reset(FS) ==
  \E io \in FS \cap (0..Len(loggers[DEFAULT].output_formats)) : ResetCall(io)

AnyIO == 0..3
LogLevels == {DEBUG, INFO, WARN, ERROR}
Items(KS, VS) ==
  {<<>>} \cup {<<<<k, v>>>> : k \in KS, v \in VS}
         \cup {<<<<kl[1], vw[1]>>, <<kl[2], vw[2]>>>> :
                 kl \in {x \in KS \X KS : x[1] # x[2]}, vw \in VS \X VS}

(* The whole facade, on one key and without stream errors *)
Next ==
  \/ Configure(Dirs, FormatLists, {0})
  \/ Reset({0})
  \/ LogKv({"a"}, {IntVal})
  \/ DumpKvs({0})
  \/ Log({DEBUG, INFO}, {0})
  \/ SetLevel({DEBUG, DISABLED})
  \/ Close

Spec == Init /\ [][Next]_vars

(* One Logger under every kind of value, level and stream error: the       *)
(* process after import, or after import and a first configure()           *)
Configured(dir, format_strs, w) ==
  /\ env = None
  /\ LET r == configure(Import(None).P, None, dir, format_strs, 0)
     IN /\ r.exc = None
        /\ loggers = r.P.loggers
        /\ CURRENT = r.P.CURRENT
        /\ last = Call("configure", r, r.P.CURRENT)
  /\ held = NoRef
  /\ writes = w
  /\ retained = Disarmed

InitDump ==
  \/ Loaded(None, Off)
  \/ \E format_strs \in FormatLists : Configured("d", format_strs, Off)

NextDump ==
  \/ LogKv(Keys, Values)
  \/ DumpKvs(AnyIO)
  \/ GetKvs
  \/ ModifyHeld(Keys, Values)
  \/ Log(LogLevels, AnyIO)
  \/ SetLevel(Levels)
  \/ Close

SpecDump == InitDump /\ [][NextDump]_vars

(* The key/value buffer of one Logger, with the history of its logkv calls *)
InitKV ==
  \/ Loaded(None, Fresh)
  \/ \E format_strs \in FormatLists : Configured("d", format_strs, Fresh)

NextKV ==
  \/ LogKv(Keys, {TensorVal, TextVal})
  \/ LogKvs(Items(Keys, {TensorVal, TextVal}))
  \/ DumpKvs({0})
  \/ SetLevel({INFO, DISABLED})

SpecKV == InitKV /\ [][NextKV]_vars

(* The console table: the default Logger or a configured one, with keys    *)
(* longer than the 23 characters the table shows in full                   *)
TableKeys == {"a", "mean_episode_reward_train", "mean_episode_reward_valid",
              "total_timesteps_so_far_in_run"}

NextTable ==
  \/ LogKv(TableKeys, {IntVal, TextVal})
  \/ DumpKvs({0})

SpecTable == InitDump /\ [][NextTable]_vars

----------------------------------------------------------------------------
(* Properties *)

\* the arguments name known formats only and a directory that can be made
ValidArgs(dir, format_strs) ==
  /\ \A i \in 1..Len(strs_of(format_strs)) : strs_of(format_strs)[i] \in FormatNames
  /\ dir # "" \/ strs_of(format_strs) = <<>>

(* C1: configure() goes through only while the current Logger is the       *)
(* default instance.  Called while another Logger is current (a second     *)
(* configure() with no reset() since the first, since nothing but reset()  *)
(* makes the default current again) it raises AssertionError and leaves    *)
(* the Loggers and Logger.CURRENT as they were; right after a reset() a    *)
(* configure() with valid arguments returns and installs a new Logger.     *)
C1_ConfigureOnlyFromDefault ==
  /\ [][\A dir \in Dirs, format_strs \in FormatLists :
          last'.op = "configure" /\ ConfigureCall(dir, format_strs, 0) =>
            /\ CURRENT # DEFAULT =>
                 last'.exc = "AssertionError" /\ CURRENT' = CURRENT /\ loggers' = loggers
            /\ last'.exc = None => CURRENT = DEFAULT /\ CURRENT' = CONFIGURED
            /\ last.op = "reset" /\ ValidArgs(dir, format_strs) =>
                 last'.exc = None /\ CURRENT' = CONFIGURED]_vars
  /\ [][CURRENT # DEFAULT /\ last'.op # "reset" => CURRENT' = CURRENT]_vars

C1_SecondConfigureRefused ==
  /\ last.op = "configure" /\ last.exc = "AssertionError"
  /\ CURRENT = CONFIGURED
  /\ loggers[CURRENT].name2val # EmptyDict
  /\ loggers[CURRENT].level # INFO
  /\ loggers[CURRENT].output_formats # <<>>

(* C8: configure() called on the default Logger with a format list that    *)
(* holds an unknown name, at any position, raises and installs nothing:    *)
(* the default instance is still current and untouched; a configure() with *)
(* valid arguments that follows it, with no reset(), returns and installs  *)
(* a Logger with one sink per name.                                        *)
C8_UnknownFormatInstallsNothing ==
  /\ [][\A dir \in Dirs, format_strs \in FormatLists :
          /\ last'.op = "configure"
          /\ CURRENT = DEFAULT
          /\ \E i \in 1..Len(strs_of(format_strs)) : strs_of(format_strs)[i] \notin FormatNames
          /\ ConfigureCall(dir, format_strs, 0)
          => /\ last'.exc \in {"ValueError", "FileNotFoundError"}
             /\ CURRENT' = DEFAULT
             /\ DOMAIN loggers' = {DEFAULT}
             /\ loggers'[DEFAULT] = loggers[DEFAULT]]_vars
  /\ [][\A dir \in Dirs, format_strs \in FormatLists :
          /\ last'.op = "configure"
          /\ last.op = "configure" /\ last.exc = "ValueError"
          /\ ValidArgs(dir, format_strs)
          /\ ConfigureCall(dir, format_strs, 0)
          => /\ last'.exc = None
             /\ CURRENT' = CONFIGURED
             /\ Len(loggers'[CONFIGURED].output_formats) = Len(strs_of(format_strs))]_vars

C8_UnknownFormatRefused ==
  /\ last.op = "configure" /\ last.exc = "ValueError"
  /\ CURRENT = DEFAULT
  /\ DOMAIN loggers = {DEFAULT}
  /\ loggers[DEFAULT].name2val # EmptyDict

(* C9: reset(), in any state, makes the default instance current, as it    *)
(* was: no directory, the one stdout console sink; it calls close() on no  *)
(* sink, and the Logger it replaces keeps its sinks as they were.          *)
C9_ResetRestoresDefault ==
  [][ResetCall(0) =>
       /\ CURRENT' = DEFAULT
       /\ loggers'[DEFAULT] = loggers[DEFAULT]
       /\ get_dir([loggers |-> loggers', CURRENT |-> CURRENT']) = None
       /\ loggers'[CURRENT'].output_formats = <<HumanOutputFormat("stdout")>>
       /\ \A i \in 1..Len(last'.trace) : last'.trace[i].call # "close"
       /\ CURRENT # DEFAULT =>
            /\ CURRENT \in DOMAIN loggers'
            /\ loggers'[CURRENT].output_formats = loggers[CURRENT].output_formats]_vars

C9_ResetLeavesSinksOpen ==
  /\ last.op = "reset"
  /\ CURRENT = DEFAULT
  /\ CONFIGURED \in DOMAIN loggers
  /\ \E i \in 1..Len(loggers[CONFIGURED].output_formats) :
       loggers[CONFIGURED].output_formats[i].writer

\* the mapping a sequence of logkv calls amounts to: the keys written, each
\* with the value of the last call for it
LastWrite(seq) ==
  [k \in {seq[i][1] : i \in 1..Len(seq)} |->
     seq[CHOOSE i \in 1..Len(seq) :
           seq[i][1] = k /\ \A j \in 1..Len(seq) : seq[j][1] = k => j <= i][2]]

\* b is w, but for tensor-like values that JSONOutputFormat has made floats
UpToFloat(b, w) ==
  /\ DOMAIN b = DOMAIN w
  /\ \A k \in DOMAIN w : b[k] = w[k] \/ (hasdtype(w[k]) /\ b[k] = float(w[k]))

\* the history in writes is that of the batch the last dumpkvs() handed out
Followed == writes.flushed \/ (writes.tracked /\ writes.failed /\ last.exc # None)

C3_DumpEmptiesBuffer ==
  last.op = "dumpkvs" /\ last.exc = None /\ loggers[CURRENT].level # DISABLED =>
    loggers[CURRENT].name2val = EmptyDict

C3_DumpWithoutSinks ==
  /\ last.op = "dumpkvs" /\ last.exc = None /\ loggers[CURRENT].level # DISABLED
  /\ loggers[CURRENT].output_formats = <<>>
  /\ writes.flushed /\ writes.seq # <<>>

(* C4: a dumpkvs() under DISABLED calls no sink and leaves the Logger, its *)
(* buffer included, as it was; when the level is then lowered, the next    *)
(* dumpkvs(), if no sink raises, calls write_kvs on every sink with the    *)
(* entries that were kept.                                                 *)
C4_DisabledDumpKeepsBuffer ==
  /\ [][last'.op = "dumpkvs" /\ loggers[CURRENT].level = DISABLED =>
          /\ last'.trace = <<>> /\ last'.exc = None
          /\ loggers'[CURRENT] = loggers[CURRENT]]_vars
  /\ [](retained.phase = "flushed" =>
          /\ last.op = "dumpkvs"
          /\ Len(last.trace) = Len(loggers[CURRENT].output_formats)
          /\ \A i \in 1..Len(last.trace) :
               /\ last.trace[i].call = "writekvs" /\ last.trace[i].sink = i
               /\ last.trace[i].exc = None
               /\ UpToFloat(last.trace[i].kvs, retained.kvs)
          /\ last.trace # <<>> => last.trace[1].kvs = retained.kvs)

C4_KeptEntriesWritten ==
  /\ retained.phase = "flushed"
  /\ retained.kvs # EmptyDict
  /\ Len(last.trace) >= 2

(* C5: when a sink's write_kvs raises during a dumpkvs(), the buffer is    *)
(* empty once dumpkvs() has ended.                                         *)
C5_BufferClearedOnSinkError ==
  last.op = "dumpkvs" /\ last.exc # None => loggers[CURRENT].name2val = EmptyDict

(* C6: when write_kvs (in dumpkvs) or write_seq (in log) raises on the     *)
(* sink at position n, the sinks before n have been written, in order, no  *)
(* sink after n is called, and the call is left by that exception.         *)
C6_FailFast ==
  last.op \in {"dumpkvs", "log"} /\ last.exc # None =>
    LET n == Len(last.trace)
    IN /\ 1 <= n /\ n <= Len(loggers[CURRENT].output_formats)
       /\ \A i \in 1..n :
            /\ last.trace[i].sink = i
            /\ last.trace[i].call = IF last.op = "log" THEN "writeseq" ELSE "writekvs"
            /\ i < n => last.trace[i].exc = None
       /\ last.trace[n].exc = last.exc

C6_MiddleSinkFails ==
  /\ last.op = "dumpkvs" /\ last.exc # None
  /\ Len(last.trace) = 2
  /\ Len(loggers[CURRENT].output_formats) = 3

(* C7: log(tokens, level) calls write_seq with the tokens on the sinks of  *)
(* the current Logger, in list order and once each, when the Logger's      *)
(* threshold is <= level, on all of them if none raises; it calls no sink  *)
(* when the threshold is above level; it changes nothing in any Logger.    *)
C7_LogForwardsAtOrAboveThreshold ==
  [][last'.op = "log" =>
       \A level \in LogLevels, io \in AnyIO :
         LogCall(level, io) =>
           /\ loggers' = loggers /\ CURRENT' = CURRENT
           /\ IF loggers[CURRENT].level <= level
              THEN /\ Len(last'.trace) <= Len(loggers[CURRENT].output_formats)
                   /\ last'.exc = None =>
                        Len(last'.trace) = Len(loggers[CURRENT].output_formats)
                   /\ last'.trace # <<>> \/ loggers[CURRENT].output_formats = <<>>
                   /\ \A i \in 1..Len(last'.trace) :
                        /\ last'.trace[i].call = "writeseq" /\ last'.trace[i].sink = i
                        /\ last'.trace[i].msg = "message"
              ELSE last'.trace = <<>> /\ last'.exc = None]_vars

C7_WarnForwardedToAllSinks ==
  /\ last.op = "log" /\ last.exc = None
  /\ Len(last.trace) = 3
  /\ loggers[CURRENT].level = WARN
  /\ loggers[CURRENT].name2val # EmptyDict

C11_BufferHoldsWhatWasWritten ==
  /\ writes.tracked /\ ~writes.flushed =>
       LET since == LastWrite(SubSeq(writes.seq, writes.mark + 1, Len(writes.seq)))
           got == View(getkvs(Reachable), loggers)
       IN /\ \A k \in DOMAIN since : k \in DOMAIN got /\ got[k] = since[k]
          /\ writes.mark = 0 => got = since
  /\ last.op = "dumpkvs" =>
       \A i \in 1..Len(last.trace) :
         LET ev == last.trace[i]
             json == loggers[CURRENT].output_formats[i].cls = "JSON"
         IN /\ json => UpToFloat(ev.out, ev.kvs) /\ \A k \in DOMAIN ev.out : ~hasdtype(ev.out[k])
            /\ i < Len(last.trace) =>
                 last.trace[i + 1].kvs = IF json THEN ev.out ELSE ev.kvs

C11_TensorReadBack ==
  /\ last.op \in {"logkv", "logkvs"}
  /\ writes.tracked /\ writes.mark >= 1
  /\ \E i, j \in 1..Len(writes.seq) :
       i < j /\ writes.seq[i][1] = writes.seq[j][1] /\ writes.seq[i][2] # writes.seq[j][2]
  /\ \E k \in DOMAIN loggers[CURRENT].name2val : loggers[CURRENT].name2val[k] = TensorVal

(* C12: a dumpkvs() that starts with an empty buffer, on a Logger with a   *)
(* console/text sink among its sinks (and no closed event-stream sink),    *)
(* returns without an exception and calls write_kvs on every sink.         *)
C12_EmptyBatchTolerated ==
  /\ last.op = "dumpkvs"
  /\ last.trace # <<>> /\ last.trace[1].kvs = EmptyDict
  /\ \E i \in 1..Len(loggers[CURRENT].output_formats) :
       loggers[CURRENT].output_formats[i].cls = "Human"
  /\ \A i \in 1..Len(loggers[CURRENT].output_formats) :
       loggers[CURRENT].output_formats[i].cls = "TensorBoard" =>
         loggers[CURRENT].output_formats[i].writer
  => /\ last.exc = None
     /\ Len(last.trace) = Len(loggers[CURRENT].output_formats)

(* C13: Logger.close() calls close() on every sink, in list order, and     *)
(* when it has returned no sink holds its resource any more (the log.txt   *)
(* file, the progress.json file, the event writer).                        *)
C13_CloseReleasesEverySink ==
  last.op = "close" =>
    /\ last.exc = None
    /\ Len(last.trace) = Len(loggers[CURRENT].output_formats)
    /\ \A i \in 1..Len(last.trace) :
         /\ last.trace[i].call = "close" /\ last.trace[i].sink = i
         /\ ~holds_resource(loggers[CURRENT].output_formats[i])

(* C14: an event-stream sink has step 1 when configure() has built it; a   *)
(* write_kvs call on it attaches the step the sink has when the call       *)
(* starts, and the step is one more after a write_kvs call that returned   *)
(* and unchanged after every other call (a write_kvs that raised, a        *)
(* write_seq, a close): the n-th completed write_kvs carries step n.       *)
C14_StepCountsCompletedWrites ==
  /\ [](last.op = "configure" /\ last.exc = None =>
          \A i \in 1..Len(loggers[CURRENT].output_formats) :
            loggers[CURRENT].output_formats[i].cls = "TensorBoard" =>
              loggers[CURRENT].output_formats[i].step = 1)
  /\ [][CURRENT' = CURRENT =>
          \A i \in 1..Len(loggers[CURRENT].output_formats) :
            loggers[CURRENT].output_formats[i].cls = "TensorBoard" =>
              LET before == loggers[CURRENT].output_formats[i].step
                  after == loggers'[CURRENT].output_formats[i].step
                  calls == {j \in 1..Len(last'.trace) :
                              last'.trace[j].call = "writekvs" /\ last'.trace[j].sink = i}
                  done == {j \in calls : last'.trace[j].exc = None}
              IN /\ Cardinality(calls) <= 1
                 /\ \A j \in calls : last'.trace[j].step = before
                 /\ after = before + Cardinality(done)]_vars

C14_SecondEventHasStepTwo ==
  /\ last.op = "dumpkvs" /\ last.exc = None
  /\ \E j \in 1..Len(last.trace) :
       /\ last.trace[j].step = 2
       /\ loggers[CURRENT].output_formats[last.trace[j].sink].cls = "TensorBoard"
       /\ loggers[CURRENT].output_formats[last.trace[j].sink].step = 3

(* C15: Logger.CURRENT is always one live Logger, the default instance or  *)
(* the one built by configure(): it becomes the default by reset() only    *)
(* and another Logger only by a configure() that returns, which installs   *)
(* a Logger it has just built, and that Logger stays current, the same     *)
(* object, until a reset(); the default instance is there in every state,  *)
(* with no directory and its one stdout sink, and configure() and reset()  *)
(* leave it exactly as it was.                                             *)
C15_OneCurrentLogger ==
  /\ [](/\ CURRENT \in DOMAIN loggers /\ CURRENT \in {DEFAULT, CONFIGURED}
        /\ DEFAULT \in DOMAIN loggers
        /\ loggers[DEFAULT].dir = None
        /\ loggers[DEFAULT].output_formats = <<HumanOutputFormat("stdout")>>)
  /\ [][CURRENT' # CURRENT =>
          IF CURRENT' = DEFAULT THEN last'.op = "reset"
          ELSE last'.op = "configure" /\ last'.exc = None]_vars
  /\ [][last'.op = "configure" /\ last'.exc = None =>
          /\ CURRENT = DEFAULT /\ CURRENT' = CONFIGURED
          /\ loggers'[CONFIGURED] =
               Logger(loggers'[CONFIGURED].dir, loggers'[CONFIGURED].output_formats)
          /\ \A i \in 1..Len(loggers'[CONFIGURED].output_formats) :
               \E f \in FormatNames :
                 loggers'[CONFIGURED].output_formats[i] =
                   make_output_format(f, loggers'[CONFIGURED].dir).fmt]_vars
  /\ [][CURRENT = CONFIGURED /\ CURRENT' = CONFIGURED =>
          /\ loggers'[CONFIGURED].dir = loggers[CONFIGURED].dir
          /\ Len(loggers'[CONFIGURED].output_formats) = Len(loggers[CONFIGURED].output_formats)
          /\ \A i \in 1..Len(loggers[CONFIGURED].output_formats) :
               /\ loggers'[CONFIGURED].output_formats[i].cls = loggers[CONFIGURED].output_formats[i].cls
               /\ loggers'[CONFIGURED].output_formats[i].file = loggers[CONFIGURED].output_formats[i].file]_vars
  /\ [][last'.op \in {"configure", "reset"} => loggers'[DEFAULT] = loggers[DEFAULT]]_vars

C15_ConfiguredOverUsedDefault ==
  /\ last.op = "configure" /\ last.exc = None
  /\ CURRENT = CONFIGURED
  /\ loggers[DEFAULT].name2val # EmptyDict
  /\ loggers[DEFAULT].level = DISABLED

(* C16: a dumpkvs() that is not skipped and in which no sink raises calls  *)
(* write_kvs once on every sink, in list order, and hands every sink the   *)
(* mapping that the buffer held when dumpkvs() started.                    *)
C16_EverySinkSeesSameBatch ==
  last.op = "dumpkvs" /\ last.exc = None /\ loggers[CURRENT].level # DISABLED =>
    /\ Len(last.trace) = Len(loggers[CURRENT].output_formats)
    /\ \A i \in 1..Len(last.trace) :
         /\ last.trace[i].call = "writekvs" /\ last.trace[i].sink = i
         /\ last.trace[i].kvs = last.trace[1].kvs

\* the announcement of a configure() that returned: one write_seq on every
\* sink of the Logger it installed, in order, and that Logger is at INFO
Announced ==
  last.op = "configure" /\ last.exc = None =>
    /\ CURRENT = CONFIGURED /\ last.target = CONFIGURED
    /\ loggers[CONFIGURED].level = INFO
    /\ Len(last.trace) = Len(loggers[CONFIGURED].output_formats)
    /\ \A i \in 1..Len(last.trace) :
         /\ last.trace[i].call = "writeseq" /\ last.trace[i].sink = i
         /\ last.trace[i].msg = "Logging to"

(* C17 as stated: configure() hands its announcement to every sink of the  *)
(* Logger it installed, and every reset() writes exactly one message, to   *)
(* the console sink of the default Logger.                                 *)
C17_LifecycleMessagesAlwaysWritten ==
  /\ Announced
  /\ last.op = "reset" =>
       /\ last.target = DEFAULT /\ Len(last.trace) = 1
       /\ last.trace[1].call = "writeseq" /\ last.trace[1].msg = "Reset logger"

(* C17, amended: configure() hands its announcement to every sink of the   *)
(* Logger it installed, which is at INFO; reset() sends its message        *)
(* through the default Logger at the default's own threshold: one          *)
(* write_seq on the default console sink when that threshold is INFO or    *)
(* lower, no sink call at all when it is above INFO.                       *)
C17_LifecycleMessagesFollowThreshold ==
  /\ Announced
  /\ last.op = "reset" =>
       /\ last.target = DEFAULT /\ CURRENT = DEFAULT /\ last.exc = None
       /\ IF loggers[DEFAULT].level <= INFO
          THEN /\ Len(last.trace) = 1
               /\ last.trace[1].call = "writeseq" /\ last.trace[1].sink = 1
               /\ last.trace[1].msg = "Reset logger"
          ELSE last.trace = <<>>

C17_ResetSilentUnderRaisedThreshold ==
  /\ last.op = "reset" /\ last.trace = <<>>
  /\ loggers[DEFAULT].level = DISABLED
  /\ CONFIGURED \in DOMAIN loggers
  /\ loggers[CONFIGURED].output_formats # <<>>

(* C18: configure() with valid arguments returns whenever the default      *)
(* instance is current, whatever its buffer and level; the Logger it       *)
(* installs has an empty buffer and level INFO; while that Logger is       *)
(* current, from the configure() to the reset() included, the default      *)
(* Logger (buffer, level) does not change and every batch handed to a sink *)
(* is the buffer of the current Logger; so after reset() the default is as *)
(* it was just before configure().                                         *)
C18_DefaultStateSurvives ==
  /\ [][\A dir \in Dirs, format_strs \in FormatLists :
          /\ last'.op = "configure"
          /\ CURRENT = DEFAULT /\ ValidArgs(dir, format_strs)
          /\ ConfigureCall(dir, format_strs, 0)
          => /\ last'.exc = None /\ CURRENT' = CONFIGURED
             /\ loggers'[CONFIGURED].name2val = EmptyDict
             /\ loggers'[CONFIGURED].level = INFO]_vars
  /\ [][CURRENT = CONFIGURED \/ CURRENT' = CONFIGURED =>
          loggers'[DEFAULT] = loggers[DEFAULT]]_vars
  /\ [][last'.op = "dumpkvs" =>
          \A i \in 1..Len(last'.trace) :
            DOMAIN last'.trace[i].kvs = DOMAIN loggers[CURRENT].name2val]_vars

C18_ResetFindsDefaultAsLeft ==
  /\ last.op = "reset"
  /\ loggers[DEFAULT].name2val = EmptyDict /\ loggers[DEFAULT].level = DEBUG
  /\ CONFIGURED \in DOMAIN loggers
  /\ loggers[CONFIGURED].name2val # EmptyDict /\ loggers[CONFIGURED].level = DISABLED

(* C19: every table a console/text sink writes for a batch has as many     *)
(* rows as the batch has keys, long keys included.                         *)
C19_OneRowPerKey ==
  last.op = "dumpkvs" =>
    \A i \in 1..Len(last.trace) :
      /\ loggers[CURRENT].output_formats[i].cls = "Human"
      /\ last.trace[i].exc = None
      => Cardinality(DOMAIN last.trace[i].out) = Cardinality(DOMAIN last.trace[i].kvs)

(* C20: with OPENAI_LOGDIR set to a non-empty value, the module load has   *)
(* run configure() on that directory: a Logger with that directory is      *)
(* current, not the default, and it stays current until a reset(), so a    *)
(* configure() by the caller before any reset() raises AssertionError and  *)
(* changes nothing; with the variable unset, the default instance is       *)
(* current after load and until a configure() returns, so the caller's     *)
(* first configure(), given valid arguments, returns and installs its      *)
(* Logger.                                                                 *)
C20_EnvironmentConfiguresAtLoad ==
  /\ [](last.op = "import" =>
          IF env # None /\ env # ""
          THEN /\ CURRENT = CONFIGURED /\ last.exc = None
               /\ get_dir(Reachable) = env
          ELSE CURRENT = DEFAULT /\ DOMAIN loggers = {DEFAULT})
  /\ [][CURRENT' # CURRENT => last'.op \in {"configure", "reset"}]_vars
  /\ [][\A dir \in Dirs, format_strs \in FormatLists :
          /\ last'.op = "configure"
          /\ ConfigureCall(dir, format_strs, 0)
          => IF CURRENT # DEFAULT
             THEN last'.exc = "AssertionError" /\ CURRENT' = CURRENT /\ loggers' = loggers
             ELSE ValidArgs(IF dir = None /\ env # None THEN env ELSE dir, format_strs) =>
                    last'.exc = None /\ CURRENT' = CONFIGURED]_vars

C20_ExplicitConfigureRefusedAfterLoad ==
  /\ env = "envdir"
  /\ last.op = "configure" /\ last.exc = "AssertionError"
  /\ get_dir(Reachable) = "envdir"
  /\ loggers[DEFAULT] = DefaultLogger

====
